---------------------------- MODULE Spec2Model ----------------------------
(***************************************************************************)
(* A model of the weekly digest pipeline: main.py drives ExaFetcher        *)
(* (src/exa_fetcher.py), LLMAnalyzer (src/llm_analyzer.py) and             *)
(* ReportGenerator (src/report_generator.py).                              *)
(*                                                                         *)
(* Representation of Python values:                                        *)
(*   - a str is a sequence of tokens (each token a TLA+ string standing    *)
(*     for a chunk of characters); concatenation is \o;                    *)
(*   - an Optional value is a record [some, v]: None or Some(v);           *)
(*   - a dict is a record, a list is a sequence;                           *)
(*   - a datetime is a calendar date <<year, month, day>> (the time of     *)
(*     day is not modelled; the clock moves by whole days).                *)
(***************************************************************************)
EXTENDS Integers, Sequences, FiniteSets, TLC

(***************************************************************************)
(* Program constants                                                       *)
(***************************************************************************)
num_results == 10
days_back == 7
XTopicLimit == 3
GithubTopicLimit == 3
ArxivTopicLimit == 4
XTextCap == 500
GithubTextCap == 500
ArxivTextCap == 800
HighlightLimit == 3

TOPICS ==
    << <<"LLM">>, <<"large language model">>, <<"AI artificial intelligence">>,
       <<"robotics">>, <<"machine learning">>, <<"neural network">>,
       <<"GPT">>, <<"transformer model">> >>

DEFAULT_MODEL == <<"xiaomi/mimo-v2-flash:free">>

\* ReportGenerator.__init__'s default output_dir
OutputDir == <<"reports">>

(***************************************************************************)
(* Bounds of the model                                                     *)
(***************************************************************************)
\* how many times midnight may pass during one run
MaxTicks == 1
\* the most results one search response may hold
MaxResults == 11
\* the longest text of a search result
MaxTextLen == 801

(***************************************************************************)
(* Python values                                                           *)
(***************************************************************************)
None == [some |-> FALSE, v |-> <<>>]
Some(x) == [some |-> TRUE, v |-> x]

\* bool(x) of an Optional str or Optional list
Truthy(o) == o.some /\ o.v # <<>>

Min(a, b) == IF a <= b THEN a ELSE b

\* s[:n]
Slice(s, n) == SubSeq(s, 1, Min(n, Len(s)))

\* str(x) inside an f-string, x an Optional str
StrOpt(o) == IF o.some THEN o.v ELSE <<"None">>

RECURSIVE Join(_, _)
\* sep.join(parts)
Join(parts, sep) ==
    IF parts = <<>> THEN <<>>
    ELSE IF Len(parts) = 1 THEN parts[1]
    ELSE parts[1] \o sep \o Join(Tail(parts), sep)

StartsWith(s, p) == Len(s) >= Len(p) /\ SubSeq(s, 1, Len(p)) = p

RECURSIVE Replace(_, _, _)
\* s.replace(old, new), old non-empty
Replace(s, old, new) ==
    IF s = <<>> THEN <<>>
    ELSE IF StartsWith(s, old)
         THEN new \o Replace(SubSeq(s, Len(old) + 1, Len(s)), old, new)
         ELSE <<Head(s)>> \o Replace(Tail(s), old, new)

RECURSIVE SplitFrom(_, _, _)
SplitFrom(s, sep, cur) ==
    IF s = <<>> THEN <<cur>>
    ELSE IF Head(s) = sep THEN <<cur>> \o SplitFrom(Tail(s), sep, <<>>)
    ELSE SplitFrom(Tail(s), sep, Append(cur, Head(s)))

\* s.split(sep), sep one token
Split(s, sep) == SplitFrom(s, sep, <<>>)

(***************************************************************************)
(* Decimal formatting of integers                                          *)
(***************************************************************************)
Digits == <<"0", "1", "2", "3", "4", "5", "6", "7", "8", "9">>

Digit(n) == Digits[n + 1]

RECURSIVE IntToStr(_)
\* str(n), n >= 0
IntToStr(n) ==
    IF n < 10 THEN <<Digit(n)>> ELSE IntToStr(n \div 10) \o <<Digit(n % 10)>>

RECURSIVE ZeroPad(_, _)
\* n formatted on at least w digits (%Y, %m, %d)
ZeroPad(n, w) ==
    IF Len(IntToStr(n)) >= w THEN IntToStr(n)
    ELSE LET RECURSIVE Zeros(_)
             Zeros(k) == IF k = 0 THEN <<>> ELSE <<"0">> \o Zeros(k - 1)
         IN Zeros(w - Len(IntToStr(n))) \o IntToStr(n)

(***************************************************************************)
(* Calendar dates                                                          *)
(***************************************************************************)
IsLeap(y) == (y % 4 = 0 /\ y % 100 # 0) \/ y % 400 = 0

DaysInMonth(y, m) ==
    IF m = 2 THEN (IF IsLeap(y) THEN 29 ELSE 28)
    ELSE IF m \in {4, 6, 9, 11} THEN 30 ELSE 31

NextDay(dt) ==
    IF dt[3] < DaysInMonth(dt[1], dt[2]) THEN <<dt[1], dt[2], dt[3] + 1>>
    ELSE IF dt[2] < 12 THEN <<dt[1], dt[2] + 1, 1>>
    ELSE <<dt[1] + 1, 1, 1>>

PrevDay(dt) ==
    IF dt[3] > 1 THEN <<dt[1], dt[2], dt[3] - 1>>
    ELSE IF dt[2] > 1 THEN <<dt[1], dt[2] - 1, DaysInMonth(dt[1], dt[2] - 1)>>
    ELSE <<dt[1] - 1, 12, 31>>

RECURSIVE MinusDays(_, _)
\* dt - timedelta(days=n)
MinusDays(dt, n) == IF n = 0 THEN dt ELSE MinusDays(PrevDay(dt), n - 1)

\* dt.strftime("%Y-%m-%d")
StrfDate(dt) ==
    ZeroPad(dt[1], 4) \o <<"-">> \o ZeroPad(dt[2], 2) \o <<"-">> \o ZeroPad(dt[3], 2)


(***************************************************************************)
(* The search service and the completion service (the environment)         *)
(***************************************************************************)
Chars == <<"a", "b", "c">>

\* a text of n characters
Text(n) == [j \in 1..n |-> Chars[(j % 3) + 1]]

GithubUrl == <<"https:", "/", "/", "github.com", "/", "owner", "/", "repo", "/", "tree">>
GithubUserUrl == <<"https:", "/", "/", "github.com", "/", "owner">>
XUrl == <<"https:", "/", "/", "x.com", "/", "user", "/", "status">>

\* a result object with every attribute set
FullResult(n) ==
    [url |-> GithubUrl, title |-> Some(<<"Title">>), text |-> Some(Text(n)),
     highlights |-> Some(<< <<"h1">>, <<"h2">>, <<"h3">>, <<"h4">> >>),
     published_date |-> Some(<<"2024-02-27T00:00:00.000Z">>),
     author |-> Some(<<"alice">>)]

\* a result object whose optional values are None or empty
EmptyResult ==
    [url |-> GithubUserUrl, title |-> Some(<<>>), text |-> Some(<<>>),
     highlights |-> None, published_date |-> None, author |-> None]

\* a result object without the optional attributes
BareResult == [url |-> XUrl, title |-> None, text |-> None]

\* n copies of r
Repeat(r, n) == [j \in 1..n |-> r]

\* outcomes of one search_and_contents call
Raised(e) == [raised |-> TRUE, error |-> e, results |-> <<>>]
Returned(rs) == [raised |-> FALSE, error |-> <<>>, results |-> rs]

ApiSmall == {Raised(<<"timeout">>), Returned(<<FullResult(2)>>)}

ApiSizes ==
    {Raised(<<"timeout">>), Returned(<<>>), Returned(<<BareResult, EmptyResult>>),
     Returned(Repeat(FullResult(1), MaxResults))}

TextLens ==
    {1, XTextCap - 1, XTextCap, XTextCap + 1, ArxivTextCap - 1, ArxivTextCap, MaxTextLen}

ApiTexts ==
    {Returned(<<FullResult(n)>>) : n \in TextLens}
        \cup {Returned(<<EmptyResult>>), Returned(<<BareResult>>)}

\* outcomes of one chat.completions.create call
Completed(content) == [raised |-> FALSE, error |-> <<>>, content |-> content]
Failed(e) == [raised |-> TRUE, error |-> e, content |-> <<>>]

Narrative == <<"## Executive Summary", "\n", "text", " | 7 |", "\n---\n">>

LlmAll == {Completed(Narrative), Completed(<<>>), Failed(<<"rate limited">>)}
LlmOne == {Completed(Narrative)}

(***************************************************************************)
(* State                                                                   *)
(***************************************************************************)
VARIABLES
    EXA_API_KEY,        \* config.EXA_API_KEY, an Optional str
    OPENROUTER_API_KEY, \* config.OPENROUTER_API_KEY, an Optional str
    args,               \* the arguments of main
    api,                \* the outcomes the search service may produce
    llm,                \* the outcomes the completion service may produce
    now,                \* the clock: today's date
    ticksLeft,          \* how many more times midnight passes
    pc,                 \* the position of main
    topics,             \* main's effective topic list
    date_range,         \* start_date, end_date of the running fetch method
    i,                  \* the index of the running fetch method's loop
    all_posts,          \* fetch_x_posts' accumulator
    all_repos,          \* fetch_github_trending's accumulator
    all_papers,         \* fetch_arxiv_papers' accumulator
    bundle,             \* the dict fetch_all is building
    searchLog,          \* the search requests issued so far, with their outcomes
    data,               \* fetch_all's result, an Optional dict
    completionLog,      \* the completion requests issued so far
    analysis,           \* analyze_and_compile's result
    full_report,        \* format_full_report's result
    files,              \* the files written so far
    dirs,               \* the directories created so far
    console,            \* what was printed
    returned,           \* the value returned by a method that was called on its own
    ret                 \* main's return value, an Optional str

vars ==
    <<EXA_API_KEY, OPENROUTER_API_KEY, args, api, llm, now, ticksLeft, pc, topics,
      date_range, i, all_posts, all_repos, all_papers, bundle, searchLog, data,
      completionLog, analysis, full_report, files, dirs, console, returned, ret>>

\* what no step of main changes
envVars == <<EXA_API_KEY, OPENROUTER_API_KEY, args, api, llm, returned>>
fetchVars == <<date_range, i, all_posts, all_repos, all_papers, bundle, searchLog>>
lateVars == <<data, completionLog, analysis, full_report, files, ret>>

(***************************************************************************)
(* ExaFetcher                                                              *)
(***************************************************************************)
HasAttr(obj, name) == name \in DOMAIN obj

\* ExaFetcher._get_date_range at clock value dt
get_date_range(dt) == <<StrfDate(MinusDays(dt, days_back)), StrfDate(dt)>>

SearchRequest(query, range) ==
    [query |-> query, num_results |-> num_results,
     start_published_date |-> range[1], end_published_date |-> range[2],
     text |-> TRUE, highlights |-> TRUE]

XQuery(topic) == topic \o <<" AI breakthrough OR announcement site:twitter.com OR site:x.com">>
GithubQuery(topic) == topic \o <<" repository stars site:github.com">>
ArxivQuery(topic) == topic \o <<" research paper site:arxiv.org">>

\* ExaFetcher._extract_repo_name
extract_repo_name(url) ==
    LET parts == Split(Replace(url, <<"https:", "/", "/", "github.com", "/">>, <<>>), "/")
    IN IF Len(parts) >= 2 THEN parts[1] \o <<"/">> \o parts[2] ELSE url

XPostRecord(topic, result) ==
    [source |-> <<"X/Twitter">>,
     topic |-> topic,
     url |-> result.url,
     title |-> IF Truthy(result.title) THEN result.title.v ELSE <<"No title">>,
     text |-> IF Truthy(result.text) THEN Slice(result.text.v, XTextCap) ELSE <<>>,
     highlights |-> IF HasAttr(result, "highlights") THEN result.highlights ELSE Some(<<>>),
     published_date |->
         IF HasAttr(result, "published_date") THEN result.published_date ELSE None,
     author |-> IF HasAttr(result, "author") THEN result.author ELSE Some(<<"Unknown">>)]

\* the GitHub record with the papers' cap on its excerpt
GithubRecordWideCap(topic, result) ==
    [source |-> <<"GitHub">>,
     topic |-> topic,
     url |-> result.url,
     name |-> extract_repo_name(result.url),
     title |-> IF Truthy(result.title) THEN result.title.v
               ELSE extract_repo_name(result.url),
     description |->
         IF Truthy(result.text) THEN Slice(result.text.v, ArxivTextCap) ELSE <<>>,
     highlights |-> IF HasAttr(result, "highlights") THEN result.highlights ELSE Some(<<>>),
     published_date |->
         IF HasAttr(result, "published_date") THEN result.published_date ELSE None]

GithubRecord(topic, result) ==
    [source |-> <<"GitHub">>,
     topic |-> topic,
     url |-> result.url,
     name |-> extract_repo_name(result.url),
     title |-> IF Truthy(result.title) THEN result.title.v
               ELSE extract_repo_name(result.url),
     description |->
         IF Truthy(result.text) THEN Slice(result.text.v, GithubTextCap) ELSE <<>>,
     highlights |-> IF HasAttr(result, "highlights") THEN result.highlights ELSE Some(<<>>),
     published_date |->
         IF HasAttr(result, "published_date") THEN result.published_date ELSE None]

\* the arXiv record without its author
ArxivRecordNoAuthor(topic, result) ==
    [source |-> <<"arXiv">>,
     topic |-> topic,
     url |-> result.url,
     title |-> IF Truthy(result.title) THEN result.title.v ELSE <<"Untitled Paper">>,
     abstract |-> IF Truthy(result.text) THEN Slice(result.text.v, ArxivTextCap) ELSE <<>>,
     highlights |-> IF HasAttr(result, "highlights") THEN result.highlights ELSE Some(<<>>),
     published_date |->
         IF HasAttr(result, "published_date") THEN result.published_date ELSE None]

ArxivRecord(topic, result) ==
    [source |-> <<"arXiv">>,
     topic |-> topic,
     url |-> result.url,
     title |-> IF Truthy(result.title) THEN result.title.v ELSE <<"Untitled Paper">>,
     abstract |-> IF Truthy(result.text) THEN Slice(result.text.v, ArxivTextCap) ELSE <<>>,
     highlights |-> IF HasAttr(result, "highlights") THEN result.highlights ELSE Some(<<>>),
     published_date |->
         IF HasAttr(result, "published_date") THEN result.published_date ELSE None,
     author |-> IF HasAttr(result, "author") THEN result.author ELSE Some(<<"Unknown">>)]

\* the records one response adds to an accumulator
XPostRecords(topic, results) == [j \in 1..Len(results) |-> XPostRecord(topic, results[j])]
GithubRecords(topic, results) == [j \in 1..Len(results) |-> GithubRecord(topic, results[j])]
ArxivRecords(topic, results) == [j \in 1..Len(results) |-> ArxivRecord(topic, results[j])]

\* fetch_x_posts' try block: a raising call is skipped, a response's records are kept
XAccumulate(acc, topic, outcome) ==
    IF outcome.raised THEN acc ELSE acc \o XPostRecords(topic, outcome.results)

\* a handler that gives up the whole fetch: except: return []
GithubAccumulateGiveUp(acc, topic, outcome) ==
    IF outcome.raised THEN <<>> ELSE acc \o GithubRecords(topic, outcome.results)

\* fetch_github_trending's try block
GithubAccumulate(acc, topic, outcome) ==
    IF outcome.raised THEN acc ELSE acc \o GithubRecords(topic, outcome.results)

\* fetch_arxiv_papers' try block
ArxivAccumulate(acc, topic, outcome) ==
    IF outcome.raised THEN acc ELSE acc \o ArxivRecords(topic, outcome.results)

\* the topics each fetch method loops over
XTopics(ts) == Slice(ts, XTopicLimit)
GithubTopics(ts) == Slice(ts, GithubTopicLimit)
\* the papers' loop with the limit of the other two
ArxivTopicsThree(ts) == Slice(ts, XTopicLimit)
ArxivTopics(ts) == Slice(ts, ArxivTopicLimit)

LogEntry(cat, topic, request, outcome) ==
    [cat |-> cat, topic |-> topic, request |-> request, outcome |-> outcome]

(***************************************************************************)
(* Initial states: the configuration, the arguments of main, the           *)
(* environment's behaviour and the date of the run                         *)
(***************************************************************************)
KeyValues == {None, Some(<<>>), Some(<<"key">>)}

Args(ts, save_report, save_raw, display) ==
    [topics |-> ts, save_report |-> save_report, save_raw |-> save_raw,
     display |-> display]

DefaultArgs == Args(None, TRUE, FALSE, TRUE)

\* the state of a process that has not entered main's body
Start ==
    /\ pc = "main"
    /\ topics = <<>>
    /\ date_range = <<>>
    /\ i = 0
    /\ all_posts = <<>>
    /\ all_repos = <<>>
    /\ all_papers = <<>>
    /\ bundle = <<>>
    /\ searchLog = <<>>
    /\ data = None
    /\ completionLog = <<>>
    /\ analysis = <<>>
    /\ full_report = <<>>
    /\ files = <<>>
    /\ dirs = {}
    /\ console = <<>>
    /\ returned = <<>>
    /\ ret = None

\* python main.py, on a day whose trailing week holds a leap day
InitDefault ==
    /\ EXA_API_KEY = Some(<<"key">>)
    /\ OPENROUTER_API_KEY = Some(<<"key">>)
    /\ args = DefaultArgs
    /\ api = ApiSmall
    /\ llm = LlmAll
    /\ now = <<2024, 3, 2>>
    /\ ticksLeft = 0

\* a run during which midnight passes, at the end of a year
InitMidnight ==
    /\ EXA_API_KEY = Some(<<"key">>)
    /\ OPENROUTER_API_KEY = Some(<<"key">>)
    /\ args = Args(Some(<< <<"agents">> >>), TRUE, FALSE, FALSE)
    /\ api = ApiSmall
    /\ llm = LlmOne
    /\ now = <<2024, 12, 31>>
    /\ ticksLeft = MaxTicks

\* every configuration and every flag, one custom topic, at the turn of a year
InitConfig ==
    /\ EXA_API_KEY \in KeyValues
    /\ OPENROUTER_API_KEY \in KeyValues
    /\ args \in {Args(Some(<< <<"agents">> >>), sr, sw, d) :
                    sr \in BOOLEAN, sw \in BOOLEAN, d \in BOOLEAN}
    /\ api = ApiSmall
    /\ llm = LlmAll
    /\ now = <<2025, 1, 3>>
    /\ ticksLeft = 0

\* responses of every size, also more results than were asked for
InitSizes ==
    /\ EXA_API_KEY = Some(<<"key">>)
    /\ OPENROUTER_API_KEY = Some(<<"key">>)
    /\ args = Args(Some(<< <<"agents">> >>), TRUE, TRUE, FALSE)
    /\ api = ApiSizes
    /\ llm = LlmOne
    /\ now = <<2026, 11, 3>>
    /\ ticksLeft = 0

\* more custom topics than any category considers, one of them twice
InitTopics ==
    /\ EXA_API_KEY = Some(<<"key">>)
    /\ OPENROUTER_API_KEY = Some(<<"key">>)
    /\ args \in {Args(Some(ts), FALSE, FALSE, FALSE) :
                    ts \in { << <<"agents">>, <<"rl">> >>,
                             << <<"agents">>, <<"rl">>, <<"agents">>, <<"vision">>,
                                <<"speech">> >> }}
    /\ api = ApiSmall
    /\ llm = LlmOne
    /\ now = <<2026, 11, 3>>
    /\ ticksLeft = 0

\* texts of every length around the caps
InitTexts ==
    /\ EXA_API_KEY = Some(<<"key">>)
    /\ OPENROUTER_API_KEY = Some(<<"key">>)
    /\ args = Args(Some(<< <<"agents">> >>), FALSE, FALSE, FALSE)
    /\ api = ApiTexts
    /\ llm = LlmOne
    /\ now = <<2026, 11, 3>>
    /\ ticksLeft = 0

Init ==
    /\ Start
    /\ InitDefault \/ InitMidnight \/ InitConfig \/ InitSizes \/ InitTopics \/ InitTexts

(***************************************************************************)
(* The clock                                                               *)
(***************************************************************************)
\* midnight passes
Tick ==
    /\ pc \notin {"done", "crashed"}
    /\ ticksLeft > 0
    /\ now' = NextDay(now)
    /\ ticksLeft' = ticksLeft - 1
    /\ UNCHANGED <<envVars, pc, topics, fetchVars, lateVars, dirs, console>>

\* a constructor without the check of the key
ExaFetcherInitNoCheck(key) == None

\* ExaFetcher.__init__: the ValueError it raises, if any
ExaFetcherInit(key) ==
    IF ~Truthy(key)
    THEN Some(<<"EXA_API_KEY not set. Please add it to your .env file.">>)
    ELSE None

\* LLMAnalyzer.__init__: the ValueError it raises, if any
LLMAnalyzerInit(key) ==
    IF ~Truthy(key)
    THEN Some(<<"OPENROUTER_API_KEY not set. Please add it to your .env file.">>)
    ELSE None

(***************************************************************************)
(* main: construction of the components                                    *)
(***************************************************************************)
\* main.py lines 37-53: topics defaulting, then ExaFetcher(), LLMAnalyzer() and
\* ReportGenerator(); the first missing key raises ValueError, which main reports
MainInit ==
    /\ pc = "main"
    /\ topics' = IF Truthy(args.topics) THEN args.topics.v ELSE TOPICS
    /\ IF ExaFetcherInit(EXA_API_KEY).some
       THEN /\ console' = Append(console,
                   <<"Configuration Error: ">> \o ExaFetcherInit(EXA_API_KEY).v)
            /\ dirs' = dirs
            /\ pc' = "done"
       ELSE IF LLMAnalyzerInit(OPENROUTER_API_KEY).some
       THEN /\ console' = Append(console,
                   <<"Configuration Error: ">> \o LLMAnalyzerInit(OPENROUTER_API_KEY).v)
            /\ dirs' = dirs
            /\ pc' = "done"
       ELSE /\ console' = console
            /\ dirs' = dirs \cup {OutputDir}
            /\ pc' = "fetch_x_posts"
    /\ UNCHANGED <<envVars, now, ticksLeft, fetchVars, lateVars>>

(***************************************************************************)
(* ExaFetcher.fetch_all                                                    *)
(***************************************************************************)
\* fetch_x_posts, lines 35-36: the date range is read, the accumulator is empty
FetchXStart ==
    /\ pc = "fetch_x_posts"
    /\ date_range' = get_date_range(now)
    /\ all_posts' = <<>>
    /\ i' = 1
    /\ pc' = "x_loop"
    /\ UNCHANGED <<envVars, now, ticksLeft, topics, all_repos, all_papers, bundle,
                   searchLog, lateVars, dirs, console>>

\* fetch_x_posts, lines 38-63: one iteration, the request and its outcome
FetchXStep ==
    /\ pc = "x_loop"
    /\ i <= Len(XTopics(topics))
    /\ \E outcome \in api :
        LET topic == XTopics(topics)[i]
            request == SearchRequest(XQuery(topic), date_range)
        IN /\ searchLog' = Append(searchLog, LogEntry("x_posts", topic, request, outcome))
           /\ all_posts' = XAccumulate(all_posts, topic, outcome)
           /\ console' =
                  IF outcome.raised
                  THEN Append(console,
                           <<"Error fetching X posts for '">> \o topic \o <<"': ">>
                               \o outcome.error)
                  ELSE console
    /\ i' = i + 1
    /\ UNCHANGED <<envVars, now, ticksLeft, pc, topics, date_range, all_repos,
                   all_papers, bundle, lateVars, dirs>>

\* fetch_x_posts, line 65
FetchXReturn ==
    /\ pc = "x_loop"
    /\ i > Len(XTopics(topics))
    /\ pc' = "fetch_github_trending"
    /\ UNCHANGED <<envVars, now, ticksLeft, topics, fetchVars, lateVars, dirs, console>>

\* fetch_github_trending, lines 77-78
FetchGithubStart ==
    /\ pc = "fetch_github_trending"
    /\ date_range' = get_date_range(now)
    /\ all_repos' = <<>>
    /\ i' = 1
    /\ pc' = "github_loop"
    /\ UNCHANGED <<envVars, now, ticksLeft, topics, all_posts, all_papers, bundle,
                   searchLog, lateVars, dirs, console>>

\* fetch_github_trending, lines 80-110
FetchGithubStep ==
    /\ pc = "github_loop"
    /\ i <= Len(GithubTopics(topics))
    /\ \E outcome \in api :
        LET topic == GithubTopics(topics)[i]
            request == SearchRequest(GithubQuery(topic), date_range)
        IN /\ searchLog' =
                  Append(searchLog, LogEntry("github_repos", topic, request, outcome))
           /\ all_repos' = GithubAccumulate(all_repos, topic, outcome)
           /\ console' =
                  IF outcome.raised
                  THEN Append(console,
                           <<"Error fetching GitHub repos for '">> \o topic \o <<"': ">>
                               \o outcome.error)
                  ELSE console
    /\ i' = i + 1
    /\ UNCHANGED <<envVars, now, ticksLeft, pc, topics, date_range, all_posts,
                   all_papers, bundle, lateVars, dirs>>

\* fetch_github_trending, line 112
FetchGithubReturn ==
    /\ pc = "github_loop"
    /\ i > Len(GithubTopics(topics))
    /\ pc' = "fetch_arxiv_papers"
    /\ UNCHANGED <<envVars, now, ticksLeft, topics, fetchVars, lateVars, dirs, console>>

\* fetch_arxiv_papers, lines 124-125
FetchArxivStart ==
    /\ pc = "fetch_arxiv_papers"
    /\ date_range' = get_date_range(now)
    /\ all_papers' = <<>>
    /\ i' = 1
    /\ pc' = "arxiv_loop"
    /\ UNCHANGED <<envVars, now, ticksLeft, topics, all_posts, all_repos, bundle,
                   searchLog, lateVars, dirs, console>>

\* fetch_arxiv_papers, lines 127-152
FetchArxivStep ==
    /\ pc = "arxiv_loop"
    /\ i <= Len(ArxivTopics(topics))
    /\ \E outcome \in api :
        LET topic == ArxivTopics(topics)[i]
            request == SearchRequest(ArxivQuery(topic), date_range)
        IN /\ searchLog' =
                  Append(searchLog, LogEntry("arxiv_papers", topic, request, outcome))
           /\ all_papers' = ArxivAccumulate(all_papers, topic, outcome)
           /\ console' =
                  IF outcome.raised
                  THEN Append(console,
                           <<"Error fetching arXiv papers for '">> \o topic \o <<"': ">>
                               \o outcome.error)
                  ELSE console
    /\ i' = i + 1
    /\ UNCHANGED <<envVars, now, ticksLeft, pc, topics, date_range, all_posts,
                   all_repos, bundle, lateVars, dirs>>

\* fetch_arxiv_papers, line 154
FetchArxivReturn ==
    /\ pc = "arxiv_loop"
    /\ i > Len(ArxivTopics(topics))
    /\ pc' = "fetch_date"
    /\ UNCHANGED <<envVars, now, ticksLeft, topics, fetchVars, lateVars, dirs, console>>

\* fetch_all, lines 175-179: the three sequences and the fetch timestamp
BundleFetchDate ==
    /\ pc = "fetch_date"
    /\ bundle' = [x_posts |-> all_posts, github_repos |-> all_repos,
                  arxiv_papers |-> all_papers, fetch_date |-> StrfDate(now)]
    /\ pc' = "range_start"
    /\ UNCHANGED <<envVars, now, ticksLeft, topics, date_range, i, all_posts,
                   all_repos, all_papers, searchLog, lateVars, dirs, console>>

\* fetch_all, line 181: a call of _get_date_range for the start
BundleRangeStart ==
    /\ pc = "range_start"
    /\ bundle' = bundle @@ [date_range |-> [start |-> get_date_range(now)[1]]]
    /\ pc' = "range_end"
    /\ UNCHANGED <<envVars, now, ticksLeft, topics, date_range, i, all_posts,
                   all_repos, all_papers, searchLog, lateVars, dirs, console>>

\* fetch_all, lines 182-184: another call of _get_date_range for the end; the
\* bundle is returned to main
BundleRangeEnd ==
    /\ pc = "range_end"
    /\ bundle' = [bundle EXCEPT !.date_range =
                      [start |-> bundle.date_range.start, end |-> get_date_range(now)[2]]]
    /\ data' = Some(bundle')
    /\ pc' = "analyze_and_compile"
    /\ UNCHANGED <<envVars, now, ticksLeft, topics, date_range, i, all_posts,
                   all_repos, all_papers, searchLog, completionLog, analysis,
                   full_report, files, ret, dirs, console>>

(***************************************************************************)
(* LLMAnalyzer                                                             *)
(***************************************************************************)
\* the Content line that looks for text and abstract only
ItemContentNoDescription(item) ==
    IF HasAttr(item, "text") THEN item.text
    ELSE IF HasAttr(item, "abstract") THEN item.abstract
    ELSE <<"No content">>

\* the Content line of _format_items:
\* item.get('text', item.get('abstract', item.get('description', 'No content')))
ItemContent(item) ==
    IF HasAttr(item, "text") THEN item.text
    ELSE IF HasAttr(item, "abstract") THEN item.abstract
    ELSE IF HasAttr(item, "description") THEN item.description
    ELSE <<"No content">>

\* one entry of _format_items, lines 144-154
FormatItem(n, item) ==
    <<"\n### Item ">> \o IntToStr(n)
      \o <<"\n- **Source**: ">>
      \o (IF HasAttr(item, "source") THEN item.source ELSE <<"Unknown">>)
      \o <<"\n- **Topic**: ">>
      \o (IF HasAttr(item, "topic") THEN item.topic ELSE <<"General">>)
      \o <<"\n- **Title**: ">>
      \o (IF HasAttr(item, "title") THEN item.title ELSE <<"No title">>)
      \o <<"\n- **URL**: ">>
      \o (IF HasAttr(item, "url") THEN item.url ELSE <<"No URL">>)
      \o <<"\n- **Date**: ">>
      \o (IF HasAttr(item, "published_date") THEN StrOpt(item.published_date)
          ELSE <<"Unknown date">>)
      \o <<"\n- **Content**: ">> \o ItemContent(item) \o <<"\n">>
      \o (IF HasAttr(item, "highlights") /\ Truthy(item.highlights)
          THEN <<"- **Key Highlights**: ">>
                 \o Join(Slice(item.highlights.v, HighlightLimit), <<" | ">>) \o <<"\n">>
          ELSE <<>>)

\* LLMAnalyzer._format_items
format_items(items) ==
    Join([n \in 1..Len(items) |-> FormatItem(n, items[n])], <<"\n">>)

\* bool(data.get(key)) for a key holding a list
HasItems(d, key) == HasAttr(d, key) /\ d[key] # <<>>

\* LLMAnalyzer._prepare_context
prepare_context(d) ==
    Join((IF HasItems(d, "x_posts")
          THEN << <<"## X/Twitter Posts\n">>, format_items(d.x_posts) >> ELSE <<>>)
         \o (IF HasItems(d, "github_repos")
             THEN << <<"\n## GitHub Repositories\n">>, format_items(d.github_repos) >>
             ELSE <<>>)
         \o (IF HasItems(d, "arxiv_papers")
             THEN << <<"\n## arXiv Papers\n">>, format_items(d.arxiv_papers) >>
             ELSE <<>>),
         <<"\n">>)

\* data.get('date_range', {}).get(key, 'N/A')
DateRangeGet(d, key) ==
    IF HasAttr(d, "date_range") /\ HasAttr(d.date_range, key) THEN d.date_range[key]
    ELSE <<"N/A">>

SystemPrompt == <<"You are an expert AI/ML research analyst. ...">>

\* analyze_and_compile, lines 53-60
UserPrompt(d) ==
    <<"Please analyze the following data ...\n\nDate Range: ">>
      \o DateRangeGet(d, "start") \o <<" to ">> \o DateRangeGet(d, "end") \o <<"\n\n">>
      \o prepare_context(d)
      \o <<"\n\nPlease compile a comprehensive report ...">>

\* analyze_and_compile, lines 63-71
CompletionRequest(d) ==
    [model |-> DEFAULT_MODEL,
     messages |-> << [role |-> "system", content |-> SystemPrompt],
                     [role |-> "user", content |-> UserPrompt(d)] >>,
     temperature |-> "0.7", max_tokens |-> "4000"]

\* analyze_and_compile, lines 62-75: what the call does for an outcome of the request,
\* return a value or raise
\* analyze_and_compile without its handler
AnalysisOfUnhandled(outcome) ==
    IF outcome.raised THEN [raised |-> TRUE, value |-> <<>>]
    ELSE [raised |-> FALSE, value |-> outcome.content]

AnalysisOf(outcome) ==
    IF outcome.raised
    THEN [raised |-> FALSE, value |-> <<"Error generating analysis: ">> \o outcome.error]
    ELSE [raised |-> FALSE, value |-> outcome.content]

(***************************************************************************)
(* ReportGenerator                                                         *)
(***************************************************************************)
MonthNames ==
    <<"January", "February", "March", "April", "May", "June", "July", "August",
      "September", "October", "November", "December">>

\* dt.strftime("%B %d, %Y at %I:%M %p")
StrfGenerated(dt) ==
    <<MonthNames[dt[2]], " ">> \o ZeroPad(dt[3], 2) \o <<", ">> \o ZeroPad(dt[1], 4)
      \o <<" at ", "HH:MM PP">>

\* dt.strftime("%Y-%m-%d_%H-%M-%S")
StrfFile(dt) == StrfDate(dt) \o <<"_", "HH-MM-SS">>

\* ReportGenerator.generate_header at clock value dt
generate_header(range, dt) ==
    <<"# AI/ML/Robotics Weekly Digest\n\n**Generated**: ">> \o StrfGenerated(dt)
      \o <<"  \n**Period**: ">>
      \o (IF HasAttr(range, "start") THEN range.start ELSE <<"N/A">>)
      \o <<" to ">>
      \o (IF HasAttr(range, "end") THEN range.end ELSE <<"N/A">>)
      \o <<"\n\n---\n\n">>

\* len(data.get(key, []))
CountOf(d, key) == IF HasAttr(d, key) THEN Len(d[key]) ELSE 0

\* the stats section with a total that leaves the papers out
generate_stats_section_short_total(d) ==
    LET x_count == CountOf(d, "x_posts")
        github_count == CountOf(d, "github_repos")
        arxiv_count == CountOf(d, "arxiv_papers")
    IN <<"## Data Summary\n\n| Source | Items Collected |\n|--------|-----------------|\n">>
         \o <<"| X/Twitter Posts | ">> \o IntToStr(x_count) \o <<" |\n">>
         \o <<"| GitHub Repositories | ">> \o IntToStr(github_count) \o <<" |\n">>
         \o <<"| arXiv Papers | ">> \o IntToStr(arxiv_count) \o <<" |\n">>
         \o <<"| **Total** | **">> \o IntToStr(x_count + github_count)
         \o <<"** |\n">>
         \o <<"\n---\n\n">>

\* ReportGenerator.generate_stats_section
generate_stats_section(d) ==
    LET x_count == CountOf(d, "x_posts")
        github_count == CountOf(d, "github_repos")
        arxiv_count == CountOf(d, "arxiv_papers")
    IN <<"## Data Summary\n\n| Source | Items Collected |\n|--------|-----------------|\n">>
         \o <<"| X/Twitter Posts | ">> \o IntToStr(x_count) \o <<" |\n">>
         \o <<"| GitHub Repositories | ">> \o IntToStr(github_count) \o <<" |\n">>
         \o <<"| arXiv Papers | ">> \o IntToStr(arxiv_count) \o <<" |\n">>
         \o <<"| **Total** | **">> \o IntToStr(x_count + github_count + arxiv_count)
         \o <<"** |\n">>
         \o <<"\n---\n\n">>

Footer ==
    <<"\n\n---\n\n## Methodology\n\n", "This digest was compiled using: ...",
      "\n\n---\n\n*Generated automatically by RecentNews AI Digest System*\n">>

\* the report with the narrative ahead of the stats table
format_full_report_swapped(d, narrative, dt) ==
    generate_header(IF HasAttr(d, "date_range") THEN d.date_range ELSE <<>>, dt)
      \o narrative \o generate_stats_section(d) \o Footer

\* ReportGenerator.format_full_report at clock value dt
format_full_report(d, narrative, dt) ==
    generate_header(IF HasAttr(d, "date_range") THEN d.date_range ELSE <<>>, dt)
      \o generate_stats_section(d) \o narrative \o Footer

\* the file save_markdown writes at clock value dt
MarkdownFile(content, dt) ==
    [path |-> OutputDir \o <<"/", "ai_digest_">> \o StrfFile(dt) \o <<".md">>,
     kind |-> "markdown", content |-> content]

\* the file save_raw_data writes at clock value dt; its content is the JSON
\* serialization of d, kept as the serialized value
RawDataFile(d, dt) ==
    [path |-> OutputDir \o <<"/", "raw_data_">> \o StrfFile(dt) \o <<".json">>,
     kind |-> "json", content |-> d]

(***************************************************************************)
(* main: analysis, formatting, saving, display                             *)
(***************************************************************************)
\* main.py line 68: analyze_and_compile(data), the completion request and its outcome;
\* main has no handler around the call, so an exception out of it ends the run
Analyze ==
    /\ pc = "analyze_and_compile"
    /\ \E outcome \in llm :
        /\ completionLog' = Append(completionLog,
               [request |-> CompletionRequest(data.v), outcome |-> outcome])
        /\ IF AnalysisOf(outcome).raised
           THEN /\ analysis' = analysis
                /\ pc' = "crashed"
           ELSE /\ analysis' = AnalysisOf(outcome).value
                /\ pc' = "format_full_report"
    /\ UNCHANGED <<envVars, now, ticksLeft, topics, fetchVars, data, full_report,
                   files, ret, dirs, console>>

\* main.py line 73: format_full_report(data, analysis)
FormatReport ==
    /\ pc = "format_full_report"
    /\ full_report' = format_full_report(data.v, analysis, now)
    /\ pc' = "save_markdown"
    /\ UNCHANGED <<envVars, now, ticksLeft, topics, fetchVars, data, completionLog,
                   analysis, files, ret, dirs, console>>

\* main.py lines 77-79: save_markdown(full_report) if save_report
SaveReport ==
    /\ pc = "save_markdown"
    /\ IF args.save_report
       THEN /\ files' = Append(files, MarkdownFile(full_report, now))
            /\ console' = Append(console,
                   <<"Report saved to: ">> \o MarkdownFile(full_report, now).path)
       ELSE UNCHANGED <<files, console>>
    /\ pc' = "save_raw_data"
    /\ UNCHANGED <<envVars, now, ticksLeft, topics, fetchVars, data, completionLog,
                   analysis, full_report, ret, dirs>>

\* the raw data saved whatever save_raw says
SaveRawAlways ==
    /\ pc = "save_raw_data"
    /\ files' = Append(files, RawDataFile(data.v, now))
    /\ console' = Append(console,
           <<"Raw data saved to: ">> \o RawDataFile(data.v, now).path)
    /\ pc' = "display"
    /\ UNCHANGED <<envVars, now, ticksLeft, topics, fetchVars, data, completionLog,
                   analysis, full_report, ret, dirs>>

\* main.py lines 81-83: save_raw_data(data) if save_raw
SaveRaw ==
    /\ pc = "save_raw_data"
    /\ IF args.save_raw
       THEN /\ files' = Append(files, RawDataFile(data.v, now))
            /\ console' = Append(console,
                   <<"Raw data saved to: ">> \o RawDataFile(data.v, now).path)
       ELSE UNCHANGED <<files, console>>
    /\ pc' = "display"
    /\ UNCHANGED <<envVars, now, ticksLeft, topics, fetchVars, data, completionLog,
                   analysis, full_report, ret, dirs>>

\* main.py lines 86-94: the report is displayed if display, and returned
DisplayAndReturn ==
    /\ pc = "display"
    /\ console' = IF args.display
                  THEN Append(console, <<"Weekly AI Digest">> \o full_report)
                  ELSE console
    /\ ret' = Some(full_report)
    /\ pc' = "done"
    /\ UNCHANGED <<envVars, now, ticksLeft, topics, fetchVars, data, completionLog,
                   analysis, full_report, files, dirs>>

Next ==
    \/ Tick
    \/ MainInit
    \/ FetchXStart
    \/ FetchXStep
    \/ FetchXReturn
    \/ FetchGithubStart
    \/ FetchGithubStep
    \/ FetchGithubReturn
    \/ FetchArxivStart
    \/ FetchArxivStep
    \/ FetchArxivReturn
    \/ BundleFetchDate
    \/ BundleRangeStart
    \/ BundleRangeEnd
    \/ Analyze
    \/ FormatReport
    \/ SaveReport
    \/ SaveRaw
    \/ DisplayAndReturn

Spec == Init /\ [][Next]_vars

(***************************************************************************)
(* Properties                                                              *)
(***************************************************************************)
Categories == {"x_posts", "github_repos", "arxiv_papers"}

Range(seq) == {seq[k] : k \in DOMAIN seq}

\* the records a response yields in a category
RecordsOf(cat, topic, results) ==
    IF cat = "x_posts" THEN XPostRecords(topic, results)
    ELSE IF cat = "github_repos" THEN GithubRecords(topic, results)
    ELSE ArxivRecords(topic, results)

RECURSIVE KeptRecords(_, _)
\* the records of the calls of a category that returned, in the order of the calls
KeptRecords(cat, log) ==
    IF log = <<>> THEN <<>>
    ELSE IF Head(log).cat = cat /\ ~Head(log).outcome.raised
         THEN RecordsOf(cat, Head(log).topic, Head(log).outcome.results)
                  \o KeptRecords(cat, Tail(log))
         ELSE KeptRecords(cat, Tail(log))

\* C1: whichever search calls raise, fetch_all returns a bundle, and the bundle
\* holds, for each category, every record of every call of that category that
\* returned: a raising call removes nothing that another call has gathered.
C1_FailureIsolation ==
    /\ pc \in {"analyze_and_compile", "format_full_report", "save_markdown",
               "save_raw_data", "display"} => data.some
    /\ data.some =>
          /\ DOMAIN data.v =
                 {"x_posts", "github_repos", "arxiv_papers", "fetch_date", "date_range"}
          /\ \A cat \in Categories : data.v[cat] = KeptRecords(cat, searchLog)

\* a bundle that holds records of a category although a later call of the same
\* category, for another topic, raised; and a call of another category raised too
C1_Witness ==
    /\ data.some
    /\ \E k1, k2, k3 \in DOMAIN searchLog :
          /\ k1 < k2
          /\ searchLog[k1].cat = searchLog[k2].cat
          /\ searchLog[k1].cat # searchLog[k3].cat
          /\ searchLog[k1].topic # searchLog[k2].topic
          /\ ~searchLog[k1].outcome.raised
          /\ searchLog[k1].outcome.results # <<>>
          /\ searchLog[k2].outcome.raised
          /\ searchLog[k3].outcome.raised
          /\ data.v[searchLog[k1].cat] # <<>>

\* C2: with the search key missing the ExaFetcher constructor raises the
\* configuration error; with either key missing main reports a configuration
\* error and ends, returning nothing, with no search request and no completion
\* request issued at any time.
C2_MissingConfigIsFatal ==
    /\ ~Truthy(EXA_API_KEY) => ExaFetcherInit(EXA_API_KEY).some
    /\ (~Truthy(EXA_API_KEY) \/ ~Truthy(OPENROUTER_API_KEY)) =>
          /\ pc \in {"main", "done"}
          /\ searchLog = <<>>
          /\ completionLog = <<>>
          /\ pc = "done" =>
                /\ Len(console) = 1
                /\ Head(console[1]) = "Configuration Error: "
                /\ ret = None

\* main has ended on the configuration error of a missing search key
C2_Witness ==
    /\ pc = "done"
    /\ ~Truthy(EXA_API_KEY)
    /\ Truthy(OPENROUTER_API_KEY)
    /\ console = << <<"Configuration Error: ",
                      "EXA_API_KEY not set. Please add it to your .env file.">> >>
    /\ searchLog = <<>>

\* C3: each of the bundle's three sequences holds at most
\* (topics considered) x num_results records, the topics considered being
\* min(len(topics), 3) for X posts and GitHub repos and min(len(topics), 4) for
\* arXiv papers, whatever the search service returns.
C3_LengthsBounded ==
    data.some =>
        /\ Len(data.v.x_posts) <= Min(Len(topics), 3) * num_results
        /\ Len(data.v.github_repos) <= Min(Len(topics), 3) * num_results
        /\ Len(data.v.arxiv_papers) <= Min(Len(topics), 4) * num_results

(***************************************************************************)
(* Reading back what was formatted                                         *)
(***************************************************************************)
DigitValue(c) == CHOOSE d \in 0..9 : Digits[d + 1] = c

IsDigit(c) == \E d \in 0..9 : Digits[d + 1] = c

RECURSIVE ParseInt(_)
\* the number a string of decimal digits denotes
ParseInt(ds) ==
    IF ds = <<>> THEN 0
    ELSE ParseInt(SubSeq(ds, 1, Len(ds) - 1)) * 10 + DigitValue(ds[Len(ds)])

\* the date a YYYY-MM-DD string denotes
ParseDate(str) ==
    <<ParseInt(SubSeq(str, 1, 4)), ParseInt(SubSeq(str, 6, 7)), ParseInt(SubSeq(str, 9, 10))>>

RECURSIVE PlusDays(_, _)
PlusDays(dt, n) == IF n = 0 THEN dt ELSE PlusDays(NextDay(dt), n - 1)

\* sub occurs in str at offset k
OccursAt(str, sub, k) ==
    /\ k + Len(sub) <= Len(str)
    /\ SubSeq(str, k + 1, k + Len(sub)) = sub

Contains(str, sub) == \E k \in 0..Len(str) : OccursAt(str, sub, k)

\* C4: in every bundle fetch_all returns, date_range.end is exactly 7 days after
\* date_range.start, and that pair is the pair of date bounds of every search
\* request of the run, also when midnight passes during the run.
C4_TrailingWindow ==
    data.some =>
        /\ ParseDate(data.v.date_range.end) =
               PlusDays(ParseDate(data.v.date_range.start), 7)
        /\ \A k \in DOMAIN searchLog :
              /\ searchLog[k].request.start_published_date = data.v.date_range.start
              /\ searchLog[k].request.end_published_date = data.v.date_range.end

AfterFormat == {"save_markdown", "save_raw_data", "display", "done"}

\* C5: when the completion request raises, analyze_and_compile returns the error
\* string instead of raising, and main goes on: the report it formats contains
\* that string, it is saved when save_report is set, and it is what main returns.
C5_AnalysisFailureIsInline ==
    /\ pc # "crashed"
    /\ (completionLog # <<>> /\ completionLog[1].outcome.raised) =>
          /\ analysis = <<"Error generating analysis: ">> \o completionLog[1].outcome.error
          /\ pc \in AfterFormat => Contains(full_report, analysis)
          /\ (pc \in {"save_raw_data", "display", "done"} /\ args.save_report) =>
                \E k \in DOMAIN files :
                    files[k].kind = "markdown" /\ files[k].content = full_report
          /\ pc = "done" => ret = Some(full_report)

\* main has returned a saved report whose narrative is the error string
C5_Witness ==
    /\ pc = "done"
    /\ completionLog # <<>>
    /\ completionLog[1].outcome.raised
    /\ args.save_report
    /\ Len(files) >= 1
    /\ Contains(files[1].content, <<"Error generating analysis: ", "rate limited">>)
    /\ ret = Some(files[1].content)

RECURSIVE ReturnedResults(_, _)
\* the result objects of the calls of a category that returned, in order
ReturnedResults(cat, log) ==
    IF log = <<>> THEN <<>>
    ELSE IF Head(log).cat = cat /\ ~Head(log).outcome.raised
         THEN Head(log).outcome.results \o ReturnedResults(cat, Tail(log))
         ELSE ReturnedResults(cat, Tail(log))

Accumulator(cat) ==
    IF cat = "x_posts" THEN all_posts
    ELSE IF cat = "github_repos" THEN all_repos
    ELSE all_papers

\* the content excerpt of a record of a category
Excerpt(cat, rec) ==
    IF cat = "x_posts" THEN rec.text
    ELSE IF cat = "github_repos" THEN rec.description
    ELSE rec.abstract

\* excerpt is the first min(len(text), cap) characters of text, and empty for a
\* text that is None or empty
IsCappedPrefix(excerpt, text, cap) ==
    IF text.some
    THEN /\ Len(excerpt) = Min(Len(text.v), cap)
         /\ \A j \in 1..Len(excerpt) : excerpt[j] = text.v[j]
    ELSE excerpt = <<>>

\* C7: the excerpt of every X post and GitHub record is the first
\* min(len(text), 500) characters of the result's text, the excerpt of every
\* arXiv record is the first min(len(text), 800) characters, and a missing or
\* empty text gives the empty excerpt.
C7_ExcerptsCapped ==
    \A cat \in Categories :
        LET results == ReturnedResults(cat, searchLog)
            records == Accumulator(cat)
        IN /\ Len(records) = Len(results)
           /\ \A k \in DOMAIN records :
                 IsCappedPrefix(Excerpt(cat, records[k]), results[k].text,
                                IF cat = "arxiv_papers" THEN 800 ELSE 500)

\* a bundle whose X post and GitHub record were cut at 500 characters and whose
\* arXiv record was cut at 800
C7_Witness ==
    /\ data.some
    /\ Len(data.v.x_posts) = 1 /\ Len(data.v.github_repos) = 1
    /\ Len(data.v.arxiv_papers) = 1
    /\ Len(ReturnedResults("x_posts", searchLog)[1].text.v) = 501
    /\ Len(data.v.x_posts[1].text) = 500
    /\ Len(ReturnedResults("github_repos", searchLog)[1].text.v) = 800
    /\ Len(data.v.github_repos[1].description) = 500
    /\ Len(ReturnedResults("arxiv_papers", searchLog)[1].text.v) > 800
    /\ Len(data.v.arxiv_papers[1].abstract) = 800

\* C9: every record of every category has the same fields under the same names:
\* source, topic, url, title, a content excerpt, highlights, published_date, author.
C9_UniformShape ==
    \A r1 \in Range(all_posts) \cup Range(all_papers), r2 \in Range(all_repos) :
        /\ DOMAIN r1 = DOMAIN r2
        /\ {"source", "topic", "url", "title", "highlights", "published_date", "author"}
               \subseteq DOMAIN r2

\* C9 as amended: all records share source, topic, url, title, highlights and
\* published_date; the content excerpt is named text in an X post, description in
\* a GitHub record and abstract in an arXiv record; X posts and arXiv records have
\* an author, GitHub records have a name and no author.
C9_RecordShapes ==
    /\ \A r \in Range(all_posts) :
          DOMAIN r = {"source", "topic", "url", "title", "text", "highlights",
                      "published_date", "author"}
    /\ \A r \in Range(all_repos) :
          DOMAIN r = {"source", "topic", "url", "name", "title", "description",
                      "highlights", "published_date"}
    /\ \A r \in Range(all_papers) :
          DOMAIN r = {"source", "topic", "url", "title", "abstract", "highlights",
                      "published_date", "author"}

\* a bundle with records of all three categories
C9_Witness ==
    /\ data.some
    /\ data.v.x_posts # <<>>
    /\ data.v.github_repos # <<>>
    /\ data.v.arxiv_papers # <<>>
    /\ DOMAIN data.v.x_posts[1] # DOMAIN data.v.github_repos[1]

\* the queries one fetch_all is to issue, in order
ExpectedQueries(ts) ==
    [k \in 1..Min(Len(ts), 3) |-> XQuery(ts[k])]
        \o [k \in 1..Min(Len(ts), 3) |-> GithubQuery(ts[k])]
        \o [k \in 1..Min(Len(ts), 4) |-> ArxivQuery(ts[k])]

IssuedQueries == [k \in DOMAIN searchLog |-> searchLog[k].request.query]

\* C10: whatever calls fail, the requests issued so far are the first ones of the
\* fixed order (X posts for topics[0..2], GitHub for topics[0..2], arXiv for
\* topics[0..3]), each once; when fetch_all returns all of them were issued, and
\* there are at most 10.
C10_FixedRequestOrder ==
    /\ Len(searchLog) <= 10
    /\ Len(searchLog) <= Len(ExpectedQueries(topics))
    /\ IssuedQueries = SubSeq(ExpectedQueries(topics), 1, Len(searchLog))
    /\ data.some => IssuedQueries = ExpectedQueries(topics)

\* a run over five custom topics whose first and sixth requests failed and which
\* issued all 10 requests
C10_Witness ==
    /\ data.some
    /\ Len(topics) = 5
    /\ Len(searchLog) = 10
    /\ searchLog[1].outcome.raised
    /\ searchLog[6].outcome.raised
    /\ ~searchLog[10].outcome.raised

(***************************************************************************)
(* ReportGenerator's methods and _prepare_context called alone on a bundle  *)
(***************************************************************************)
SampleRecord(cat) == RecordsOf(cat, <<"agents">>, <<FullResult(3)>>)[1]

SampleRange ==
    [start |-> StrfDate(<<2026, 10, 27>>), end |-> StrfDate(<<2026, 11, 3>>)]

\* a dict with the keys `keys`, its categories holding nx, ng and np records
FormatBundle(keys, nx, ng, np, range) ==
    [k \in keys |->
        IF k = "x_posts" THEN Repeat(SampleRecord("x_posts"), nx)
        ELSE IF k = "github_repos" THEN Repeat(SampleRecord("github_repos"), ng)
        ELSE IF k = "arxiv_papers" THEN Repeat(SampleRecord("arxiv_papers"), np)
        ELSE range]

FormatCounts == {0, 1, 9, MaxResults}

FormatBundles ==
    {FormatBundle(keys, nx, ng, np, range) :
        keys \in SUBSET (Categories \cup {"date_range"}),
        nx \in FormatCounts, ng \in FormatCounts, np \in FormatCounts,
        range \in {SampleRange, [start |-> SampleRange.start]}}

\* records of several topics and results, no two alike within a category
MixedPosts ==
    XPostRecords(<<"agents">>, <<FullResult(1), EmptyResult, BareResult>>)
        \o XPostRecords(<<"rl">>, <<FullResult(2)>>)
MixedRepos == GithubRecords(<<"agents">>, <<FullResult(3), EmptyResult>>)
MixedPapers == ArxivRecords(<<"vision">>, <<BareResult, FullResult(4), FullResult(5)>>)

\* bundles whose categories hold the first records of the mixed sequences
MixedBundles ==
    {[k \in keys |->
         IF k = "x_posts" THEN Slice(MixedPosts, nx)
         ELSE IF k = "github_repos" THEN Slice(MixedRepos, ng)
         ELSE IF k = "arxiv_papers" THEN Slice(MixedPapers, np)
         ELSE SampleRange] :
        keys \in SUBSET (Categories \cup {"date_range"}),
        nx \in 0..Len(MixedPosts), ng \in 0..Len(MixedRepos),
        np \in 0..Len(MixedPapers)}

\* a narrative that repeats pieces of the report around it
EchoNarrative == <<"| **Total** | **", "9", "** |\n", "\n---\n\n">>

InitFormat ==
    /\ EXA_API_KEY = Some(<<"key">>)
    /\ OPENROUTER_API_KEY = Some(<<"key">>)
    /\ args = DefaultArgs
    /\ api = {}
    /\ llm = {}
    /\ now = <<2026, 11, 3>>
    /\ ticksLeft = 0
    /\ pc = "call"
    /\ topics = <<>>
    /\ date_range = <<>>
    /\ i = 0
    /\ all_posts = <<>>
    /\ all_repos = <<>>
    /\ all_papers = <<>>
    /\ bundle = <<>>
    /\ searchLog = <<>>
    /\ data \in {Some(b) : b \in FormatBundles \cup MixedBundles}
    /\ completionLog = <<>>
    /\ analysis \in {Narrative, EchoNarrative}
    /\ full_report = <<>>
    /\ files = <<>>
    /\ dirs = {OutputDir}
    /\ console = <<>>
    /\ returned = <<>>
    /\ ret = None

\* generator.generate_stats_section(data)
CallGenerateStats ==
    /\ pc = "call"
    /\ returned' = generate_stats_section(data.v)
    /\ pc' = "stats_done"
    /\ UNCHANGED <<EXA_API_KEY, OPENROUTER_API_KEY, args, api, llm, now, ticksLeft,
                   topics, fetchVars, lateVars, dirs, console>>

\* generator.format_full_report(data, analysis)
CallFormatFullReport ==
    /\ pc = "call"
    /\ returned' = format_full_report(data.v, analysis, now)
    /\ pc' = "report_done"
    /\ UNCHANGED <<EXA_API_KEY, OPENROUTER_API_KEY, args, api, llm, now, ticksLeft,
                   topics, fetchVars, lateVars, dirs, console>>

\* analyzer._prepare_context(data)
CallPrepareContext ==
    /\ pc = "call"
    /\ returned' = prepare_context(data.v)
    /\ pc' = "context_done"
    /\ UNCHANGED <<EXA_API_KEY, OPENROUTER_API_KEY, args, api, llm, now, ticksLeft,
                   topics, fetchVars, lateVars, dirs, console>>

NextFormat ==
    \/ CallGenerateStats
    \/ CallFormatFullReport
    \/ CallPrepareContext

SpecFormat == InitFormat /\ [][NextFormat]_vars

\* the length of a category's sequence in a bundle, 0 for a category it lacks
LengthIn(d, cat) == IF cat \in DOMAIN d THEN Len(d[cat]) ELSE 0

RECURSIVE LeadingDigits(_)
LeadingDigits(str) ==
    IF str # <<>> /\ IsDigit(Head(str)) THEN <<Head(str)>> \o LeadingDigits(Tail(str))
    ELSE <<>>

\* the offsets at which a token occurs
Offsets(str, token) == {k \in DOMAIN str : str[k] = token}

\* the number shown in the row of the table that starts with label
ShownCount(table, label) ==
    LET k == CHOOSE k \in Offsets(table, label) : TRUE
    IN ParseInt(LeadingDigits(SubSeq(table, k + 1, Len(table))))

StatsRows ==
    <<"| X/Twitter Posts | ", "| GitHub Repositories | ", "| arXiv Papers | ",
      "| **Total** | **">>

\* C6: for any bundle, also the empty one and one that lacks a category, each of
\* the three counts the stats table shows is the length of that category's
\* sequence in the bundle, and the total it shows is the sum of the three.
C6_StatsCounts ==
    pc = "stats_done" =>
        /\ \A r \in DOMAIN StatsRows : Cardinality(Offsets(returned, StatsRows[r])) = 1
        /\ ShownCount(returned, StatsRows[1]) = LengthIn(data.v, "x_posts")
        /\ ShownCount(returned, StatsRows[2]) = LengthIn(data.v, "github_repos")
        /\ ShownCount(returned, StatsRows[3]) = LengthIn(data.v, "arxiv_papers")
        /\ ShownCount(returned, StatsRows[4]) =
               LengthIn(data.v, "x_posts") + LengthIn(data.v, "github_repos")
                   + LengthIn(data.v, "arxiv_papers")

\* the stats table of a bundle that lacks its X posts and holds no GitHub record
\* and MaxResults arXiv records
C6_Witness ==
    /\ pc = "stats_done"
    /\ "x_posts" \notin DOMAIN data.v
    /\ "github_repos" \in DOMAIN data.v /\ data.v.github_repos = <<>>
    /\ "arxiv_papers" \in DOMAIN data.v /\ Len(data.v.arxiv_papers) = MaxResults
    /\ ShownCount(returned, StatsRows[4]) = MaxResults

\* C8: the report format_full_report makes of a bundle and a narrative contains
\* the bundle's date range (start " to " end, for a bundle that has one), then
\* the stats table, then the narrative unmodified, then the methodology footer,
\* in that order.
C8_ReportContents ==
    pc = "report_done" =>
        LET period ==
                IF "date_range" \in DOMAIN data.v
                     /\ DOMAIN data.v.date_range = {"start", "end"}
                THEN data.v.date_range.start \o <<" to ">> \o data.v.date_range.end
                ELSE <<>>
            stats == generate_stats_section(data.v)
        IN \E a \in 0..Len(returned) :
              /\ OccursAt(returned, period, a)
              /\ \E b \in (a + Len(period))..Len(returned) :
                    /\ OccursAt(returned, stats, b)
                    /\ \E c \in (b + Len(stats))..Len(returned) :
                          /\ OccursAt(returned, analysis, c)
                          /\ \E e \in (c + Len(analysis))..Len(returned) :
                                OccursAt(returned, Footer, e)

\* a report made of a bundle with a date range and records, and of a narrative
C8_Witness ==
    /\ pc = "report_done"
    /\ "date_range" \in DOMAIN data.v
    /\ DOMAIN data.v.date_range = {"start", "end"}
    /\ LengthIn(data.v, "x_posts") = 1
    /\ analysis = Narrative
    /\ Contains(returned, Narrative)
    /\ Contains(returned, SampleRange.start \o <<" to ">> \o SampleRange.end)

(***************************************************************************)
(* Reading back the context                                                *)
(***************************************************************************)
\* the stanzas of a context: what follows each "### Item" heading
Stanzas(context) ==
    LET heads == Offsets(context, "\n### Item ")
        nth(k) == CHOOSE o \in heads : Cardinality({m \in heads : m <= o}) = k
    IN [k \in 1..Cardinality(heads) |->
           SubSeq(context, nth(k) + 1,
                  IF k = Cardinality(heads) THEN Len(context) ELSE nth(k + 1) - 1)]

\* the tokens of a stanza between the first `left` and the next `right`
FieldOf(stanza, left, right) ==
    LET a == CHOOSE k \in Offsets(stanza, left) :
                 \A m \in Offsets(stanza, left) : k <= m
        b == CHOOSE k \in {m \in Offsets(stanza, right) : m > a} :
                 \A m \in Offsets(stanza, right) : m > a => k <= m
    IN SubSeq(stanza, a + 1, b - 1)

RECURSIVE ExpectedStanzas(_, _)
\* for the categories cats, in order, and each record of a category, in order:
\* the record's source, topic and content excerpt
ExpectedStanzas(d, cats) ==
    IF cats = <<>> THEN <<>>
    ELSE (IF Head(cats) \in DOMAIN d
          THEN [k \in 1..Len(d[Head(cats)]) |->
                   [source |-> d[Head(cats)][k].source,
                    topic |-> d[Head(cats)][k].topic,
                    content |-> Excerpt(Head(cats), d[Head(cats)][k])]]
          ELSE <<>>)
         \o ExpectedStanzas(d, Tail(cats))

CategoryOrder == <<"x_posts", "github_repos", "arxiv_papers">>

\* C11: the context _prepare_context builds of a bundle holds exactly one stanza
\* per record, as many as the three sequences hold together, in the order X
\* posts, GitHub repos, arXiv papers and in sequence order within a category; the
\* Content of each stanza is the content excerpt of its record (text, description
\* or abstract), and never the placeholder "No content".
C11_ContextStanzas ==
    pc = "context_done" =>
        LET stanzas == Stanzas(returned)
            expected == ExpectedStanzas(data.v, CategoryOrder)
        IN /\ Len(stanzas) =
                  LengthIn(data.v, "x_posts") + LengthIn(data.v, "github_repos")
                      + LengthIn(data.v, "arxiv_papers")
           /\ Len(stanzas) = Len(expected)
           /\ \A k \in DOMAIN stanzas :
                 /\ FieldOf(stanzas[k], "\n- **Source**: ", "\n- **Topic**: ")
                        = expected[k].source
                 /\ FieldOf(stanzas[k], "\n- **Topic**: ", "\n- **Title**: ")
                        = expected[k].topic
                 /\ FieldOf(stanzas[k], "\n- **Content**: ", "\n") = expected[k].content
                 /\ FieldOf(stanzas[k], "\n- **Content**: ", "\n") # <<"No content">>

\* the context of a bundle with four X posts, two GitHub records and three arXiv
\* records, some of them with an empty excerpt
C11_Witness ==
    /\ pc = "context_done"
    /\ LengthIn(data.v, "x_posts") = 4
    /\ LengthIn(data.v, "github_repos") = 2
    /\ LengthIn(data.v, "arxiv_papers") = 3
    /\ data.v.x_posts[1].topic # data.v.x_posts[4].topic
    /\ data.v.github_repos[2].description = <<>>
    /\ Len(Stanzas(returned)) = 9
    /\ FieldOf(Stanzas(returned)[5], "\n- **Content**: ", "\n")
           = data.v.github_repos[1].description

(***************************************************************************)
(* The stages of a run of main                                             *)
(***************************************************************************)
\* both API keys are set
Configured == Truthy(EXA_API_KEY) /\ Truthy(OPENROUTER_API_KEY)

\* the files of one kind written so far
FilesOfKind(kind) == {k \in DOMAIN files : files[k].kind = kind}

\* the places of main after format_full_report has returned
AfterFormatting == {"save_markdown", "save_raw_data", "display", "done"}

\* C12: in a run of main the completion request is issued once, after every
\* search request was issued and fetch_all has returned its bundle, and it is
\* built from that bundle; a file is written only after fetching, analysis and
\* formatting are complete, the markdown file holding the formatted report and
\* the raw-data file the bundle; a markdown file is never written unless
\* save_report is set and a raw-data file never unless save_raw is set, and a
\* configured run that has ended wrote exactly one markdown file if save_report
\* and none otherwise, exactly one raw-data file if save_raw and none otherwise;
\* with an API key missing no file is written and no request is made.
C12_StagesAndSaves ==
    /\ Len(completionLog) <= 1
    /\ completionLog # <<>> =>
           /\ data.some
           /\ IssuedQueries = ExpectedQueries(topics)
           /\ completionLog[1].request = CompletionRequest(data.v)
    /\ full_report # <<>> => completionLog # <<>>
    /\ files # <<>> =>
           /\ pc \in AfterFormatting \ {"save_markdown"}
           /\ data.some
           /\ completionLog # <<>>
           /\ full_report # <<>>
    /\ \A k \in FilesOfKind("markdown") :
           args.save_report /\ files[k].content = full_report
    /\ \A k \in FilesOfKind("json") :
           args.save_raw /\ files[k].content = data.v
    /\ FilesOfKind("markdown") \cup FilesOfKind("json") = DOMAIN files
    /\ (pc = "done" /\ Configured) =>
           /\ Cardinality(FilesOfKind("markdown")) = (IF args.save_report THEN 1 ELSE 0)
           /\ Cardinality(FilesOfKind("json")) = (IF args.save_raw THEN 1 ELSE 0)
           /\ completionLog # <<>>
    /\ ~Configured =>
           /\ files = <<>>
           /\ searchLog = <<>>
           /\ completionLog = <<>>

\* a configured run that has ended with save_report off and save_raw on: all
\* search requests and the completion request were made and only the raw-data
\* file was written
C12_Witness ==
    /\ pc = "done"
    /\ Configured
    /\ ~args.save_report
    /\ args.save_raw
    /\ Len(files) = 1
    /\ files[1].kind = "json"
    /\ Len(completionLog) = 1
    /\ searchLog # <<>>
    /\ ret = Some(full_report)

=============================================================================
